---------------------------- MODULE Spec2Model ----------------------------
(***************************************************************************)
(* Appointment scheduling core of the beauty-salon backend:                *)
(*   backend/apps/appointments/{api,services,models,schemas}.py            *)
(*   backend/apps/core/models.py, backend/apps/services/models.py          *)
(*   backend/apps/staff/{api,services,models,schemas}.py                   *)
(*                                                                         *)
(* Times are minutes on a grid of SlotStepMinutes.  The appointments table *)
(* is a sequence whose index is the primary key.  Every HTTP handler is    *)
(* one action; its outcome for the caller is kept in response.             *)
(***************************************************************************)
EXTENDS Integers, Sequences, FiniteSets, TLC

VARIABLES appointments, now, response, inflight, query, requested, working_hours,
          walk, instance

vars == <<appointments, now, response, inflight, query, requested, working_hours,
          walk, instance>>

(***************************************************************************)
(* Bounds of the model.                                                    *)
(***************************************************************************)
MaxAppts == 2
MaxTick == 2
MaxNow == 1
MaxRows == 2

\* services.py:161  current_time += timedelta(minutes=30)
SlotStepMinutes == 30

\* An optional request field that was not sent / a NULL column.
Unset == 0 - 1

TimeGrid == {SlotStepMinutes * k : k \in 0..MaxTick}

ClientIds == {1, 2}
StaffIds == {1, 2}
ServiceIds == {1, 2}
Procs == {1, 2}

(***************************************************************************)
(* services/models.py: Service rows, read-only to the scheduling core.     *)
(***************************************************************************)
Services ==
    [s \in ServiceIds |->
        IF s = 1
        THEN [duration_minutes |-> 30, preparation_time |-> 0, cleanup_time |-> 0]
        ELSE [duration_minutes |-> 30, preparation_time |-> 15, cleanup_time |-> 15]]

\* A plausible slip: the total forgets preparation and cleanup time.
total_duration_minutes_mut(service_id) ==
    Services[service_id].duration_minutes

\* Service.total_duration_minutes (services/models.py:212-215)
total_duration_minutes(service_id) ==
    Services[service_id].duration_minutes
        + Services[service_id].preparation_time
        + Services[service_id].cleanup_time

(***************************************************************************)
(* appointments/models.py: Appointment                                     *)
(***************************************************************************)
AppointmentStatus ==
    {"pending", "confirmed", "checked_in", "in_progress",
     "completed", "cancelled", "no_show"}

\* Appointment(BaseModel) declares no manager, and BaseModel (core/models.py
\* 65-71) supplies none: the class has the default manager `objects` only.
\* Line 180 reads Appointment.objects_with_deleted, which therefore raises
\* AttributeError; the except clause on line 183 catches DoesNotExist only.
Appointment_has_objects_with_deleted == FALSE

\* Client (clients/models.py:235-386) has the fields user, phone_number, ...
\* and no attribute full_name, first_name or email.
Client_has_full_name == FALSE

\* Appointment._is_valid_status_transition (models.py:186-198)
_is_valid_status_transition(from_status, to_status) ==
    to_status \in
        CASE from_status = "pending" -> {"confirmed", "cancelled"}
          [] from_status = "confirmed" -> {"checked_in", "cancelled", "no_show"}
          [] from_status = "checked_in" -> {"in_progress", "no_show"}
          [] from_status = "in_progress" -> {"completed", "cancelled"}
          [] from_status = "completed" -> {}
          [] from_status = "cancelled" -> {"pending"}
          [] from_status = "no_show" -> {"pending"}
          [] OTHER -> {}

\* A new, unsaved Appointment built from the create payload (field defaults
\* of models.py:80-123; is_deleted/deleted_at from core/models.py:33-41).
NewAppointment(data) ==
    [pk |-> Unset,
     client_id |-> data.client_id,
     service_id |-> data.service_id,
     staff_member_id |-> data.staff_member_id,
     scheduled_start_time |-> data.scheduled_start_time,
     scheduled_end_time |-> data.scheduled_end_time,
     status |-> "pending",
     payment_status |-> "pending",
     notes_null |-> data.notes_null,
     cancellation_reason |-> "",
     actual_start_time |-> Unset,
     actual_end_time |-> Unset,
     is_deleted |-> FALSE,
     deleted_at |-> Unset]

\* A plausible slip: the transition rule is not applied to existing rows.
clean_skips_transition_rule(table, obj) ==
    IF obj.scheduled_start_time >= obj.scheduled_end_time
    THEN "ValidationError:range"
    ELSE IF obj.scheduled_end_time - obj.scheduled_start_time
                # total_duration_minutes(obj.service_id)
    THEN "ValidationError:duration"
    ELSE "ok"

\* A plausible slip: the manager clean() reads exists, so the transition
\* rule decides about existing rows.
clean_reads_original(table, obj) ==
    IF obj.scheduled_start_time >= obj.scheduled_end_time
    THEN "ValidationError:range"
    ELSE IF obj.scheduled_end_time - obj.scheduled_start_time
                # total_duration_minutes(obj.service_id)
    THEN "ValidationError:duration"
    ELSE IF obj.pk = Unset
    THEN "ok"
    ELSE IF ~_is_valid_status_transition(table[obj.pk].status, obj.status)
    THEN "ValidationError:transition"
    ELSE "ok"

\* Appointment.clean (models.py:157-184): "ok" or the exception it raises.
clean(table, obj) ==
    IF obj.scheduled_start_time >= obj.scheduled_end_time
    THEN "ValidationError:range"
    ELSE IF obj.scheduled_end_time - obj.scheduled_start_time
                # total_duration_minutes(obj.service_id)
    THEN "ValidationError:duration"
    ELSE IF obj.pk = Unset
    THEN "ok"
    ELSE IF ~Appointment_has_objects_with_deleted
    THEN "AttributeError"
    ELSE IF ~_is_valid_status_transition(table[obj.pk].status, obj.status)
    THEN "ValidationError:transition"
    ELSE "ok"

\* Appointment.save (models.py:200-254): clean, then the row is written.
\* The notification block runs after the write; NotificationService reads
\* client.first_name (notifications/services.py:152), an AttributeError that
\* line 252 swallows, so the write stands and no notification is recorded.
\* notes = None violates the NOT NULL column of models.py:101-104.
save(table, obj) ==
    LET c == clean(table, obj) IN
    IF c # "ok" THEN [error |-> c, table |-> table, pk |-> obj.pk]
    ELSE IF obj.notes_null
    THEN [error |-> "IntegrityError", table |-> table, pk |-> obj.pk]
    ELSE IF obj.pk = Unset
    THEN [error |-> "ok",
          table |-> Append(table, [obj EXCEPT !.pk = Len(table) + 1]),
          pk |-> Len(table) + 1]
    ELSE [error |-> "ok",
          table |-> [table EXCEPT ![obj.pk] = obj],
          pk |-> obj.pk]

\* NotificationService.send_appointment_confirmation / _cancellation build
\* their templates from client.first_name (notifications/services.py:152);
\* Client has no such attribute, so the call raises AttributeError before a
\* Notification row or a message exists.
Client_has_first_name == FALSE

\* The notification block of Appointment.save (models.py:216-254), reached
\* after the row was written: the calls it makes on NotificationService.
\* old_row.pk = Unset stands for is_new.
save_requests(old_row, row) ==
    IF old_row.pk = Unset
    THEN <<[kind |-> "confirmation", appointment |-> row.pk, reason |-> "",
            failed |-> ~Client_has_first_name]>>
    ELSE IF old_row.status = row.status THEN <<>>
    ELSE IF old_row.status = "pending" /\ row.status = "confirmed"
    THEN <<[kind |-> "confirmation", appointment |-> row.pk, reason |-> "",
            failed |-> ~Client_has_first_name]>>
    ELSE IF row.status = "cancelled"
    THEN <<[kind |-> "cancellation", appointment |-> row.pk,
            reason |-> IF row.cancellation_reason = ""
                       THEN "No reason provided" ELSE row.cancellation_reason,
            failed |-> ~Client_has_first_name]>>
    ELSE <<>>

RECURSIVE requests_from(_, _, _)
\* The calls made by the saves that turned old_table into new_table, in
\* primary-key order from row i on (a request writes at most one row).
requests_from(old_table, new_table, i) ==
    IF i > Len(new_table) THEN <<>>
    ELSE (IF i > Len(old_table)
          THEN save_requests([pk |-> Unset, status |-> ""], new_table[i])
          ELSE IF old_table[i] = new_table[i] THEN <<>>
          ELSE save_requests(old_table[i], new_table[i]))
         \o requests_from(old_table, new_table, i + 1)

notification_requests(old_table, new_table) == requests_from(old_table, new_table, 1)

(***************************************************************************)
(* appointments/services.py: AppointmentService                            *)
(***************************************************************************)
\* A plausible slip: the first bound is compared with the proposed start
\* instead of the proposed end.
conflict_query_mut(row, subject_field, subject, start_time, end_time, exclude_appointment_id) ==
    /\ row[subject_field] = subject
    /\ row.scheduled_start_time < start_time
    /\ row.scheduled_end_time > start_time
    /\ (exclude_appointment_id # Unset => row.pk # exclude_appointment_id)
    /\ row.status # "cancelled"

\* A plausible slip: closed-interval comparison, so touching endpoints clash.
conflict_query_closed(row, subject_field, subject, start_time, end_time, exclude_appointment_id) ==
    /\ row[subject_field] = subject
    /\ row.scheduled_start_time <= end_time
    /\ row.scheduled_end_time >= start_time
    /\ (exclude_appointment_id # Unset => row.pk # exclude_appointment_id)
    /\ row.status # "cancelled"

\* A plausible slip: cancelled rows are not excluded.
conflict_query_keep_cancelled(row, subject_field, subject, start_time, end_time, exclude_appointment_id) ==
    /\ row[subject_field] = subject
    /\ row.scheduled_start_time < end_time
    /\ row.scheduled_end_time > start_time
    /\ (exclude_appointment_id # Unset => row.pk # exclude_appointment_id)

\* The Q object of services.py:41-52 (staff) and 83-94 (client), as a
\* predicate on one row.  Appointment.objects is the default manager, so
\* soft-deleted rows are not filtered out.
conflict_query(row, subject_field, subject, start_time, end_time, exclude_appointment_id) ==
    /\ row[subject_field] = subject
    /\ row.scheduled_start_time < end_time
    /\ row.scheduled_end_time > start_time
    /\ (exclude_appointment_id # Unset => row.pk # exclude_appointment_id)
    /\ row.status # "cancelled"

\* A plausible slip: the except branch answers "available".
check_staff_availability_fail_open(table, staff_member, start_time, end_time, exclude_appointment_id, db_error) ==
    IF db_error THEN TRUE
    ELSE ~\E i \in 1..Len(table) :
            conflict_query(table[i], "staff_member_id", staff_member,
                           start_time, end_time, exclude_appointment_id)

\* AppointmentService.check_staff_availability (services.py:20-60).
\* db_error: the query raised; line 58-60 logs and returns False.
check_staff_availability(table, staff_member, start_time, end_time, exclude_appointment_id, db_error) ==
    IF db_error THEN FALSE
    ELSE ~\E i \in 1..Len(table) :
            conflict_query(table[i], "staff_member_id", staff_member,
                           start_time, end_time, exclude_appointment_id)

\* AppointmentService.check_client_availability (services.py:62-102)
check_client_availability(table, client, start_time, end_time, exclude_appointment_id, db_error) ==
    IF db_error THEN FALSE
    ELSE ~\E i \in 1..Len(table) :
            conflict_query(table[i], "client_id", client,
                           start_time, end_time, exclude_appointment_id)

\* AppointmentService.validate_appointment_time (services.py:168-201):
\* "" when valid, else which rule rejected.
validate_appointment_time(table, t, staff_member, start_time, end_time, exclude_appointment_id, db_error) ==
    IF start_time < t THEN "past"
    ELSE IF start_time >= end_time THEN "range"
    ELSE IF ~check_staff_availability(table, staff_member, start_time, end_time,
                                      exclude_appointment_id, db_error)
    THEN "unavailable"
    ELSE ""

(***************************************************************************)
(* appointments/api.py: the handlers, as functions of the table.           *)
(* Each returns [table, kind, detail]: the table after the request and     *)
(* what the caller receives.                                               *)
(***************************************************************************)
Result(table, kind, detail) == [table |-> table, kind |-> kind, detail |-> detail]

\* AppointmentCreateSchema / AppointmentUpdateSchema.validate_future_time
\* (schemas.py:50-57, 142-150): a sent time before now is refused (HTTP 422)
\* before the handler runs.
validate_future_time(t, v) == v = Unset \/ v >= t

\* The response construction shared by the handlers (api.py:63-83, 162-182,
\* 293-313, ...): it reads appointment.client.full_name.
BuildResponse(table) ==
    IF Client_has_full_name
    THEN Result(table, "ok", "")
    ELSE Result(table, "Exception", "AttributeError:full_name")

\* A hardened variant: the insert re-runs the staff conflict query in the
\* same atomic step and refuses a row that now overlaps.
create_insert_rechecks(table, data) ==
    IF ~check_staff_availability(table, data.staff_member_id, data.scheduled_start_time,
                                 data.scheduled_end_time, Unset, FALSE)
    THEN Result(table, "ValidationError", "unavailable")
    ELSE LET s == save(table, NewAppointment(data)) IN
         IF s.error = "ok" THEN BuildResponse(s.table)
         ELSE Result(table, "Exception", s.error)

\* The insert step of create_appointment (api.py:58-83).
create_insert(table, data) ==
    LET s == save(table, NewAppointment(data)) IN
    IF s.error = "ok" THEN BuildResponse(s.table)
    ELSE IF s.error \in {"ValidationError:range", "ValidationError:duration"}
    THEN Result(table, "ValidationError", s.error)
    ELSE Result(table, "Exception", s.error)

\* A plausible variant: the duration comparison runs before the staff
\* conflict query (past time, range, duration, staff conflict).
create_checks_duration_first(table, t, data, db_error) ==
    IF ~(validate_future_time(t, data.scheduled_start_time)
          /\ validate_future_time(t, data.scheduled_end_time))
    THEN Result(table, "Http422", "past")
    ELSE IF data.client_id \notin ClientIds \/ data.service_id \notin ServiceIds
            \/ data.staff_member_id \notin StaffIds
    THEN Result(table, "Exception", "Http404")
    ELSE IF data.scheduled_start_time < t
    THEN Result(table, "ValidationError", "past")
    ELSE IF data.scheduled_start_time >= data.scheduled_end_time
    THEN Result(table, "ValidationError", "range")
    ELSE IF data.scheduled_end_time - data.scheduled_start_time
                # total_duration_minutes(data.service_id)
    THEN Result(table, "ValidationError", "duration")
    ELSE IF ~check_staff_availability(table, data.staff_member_id,
                 data.scheduled_start_time, data.scheduled_end_time, Unset, db_error)
    THEN Result(table, "ValidationError", "unavailable")
    ELSE Result(table, "", "")

\* The checks of create_appointment before the insert (api.py:36-56):
\* kind "" when the request may be inserted.
create_checks(table, t, data, db_error) ==
    IF ~(validate_future_time(t, data.scheduled_start_time)
          /\ validate_future_time(t, data.scheduled_end_time))
    THEN Result(table, "Http422", "past")
    ELSE IF data.client_id \notin ClientIds \/ data.service_id \notin ServiceIds
            \/ data.staff_member_id \notin StaffIds
    THEN Result(table, "Exception", "Http404")
    ELSE LET v == validate_appointment_time(table, t, data.staff_member_id,
                      data.scheduled_start_time, data.scheduled_end_time,
                      Unset, db_error) IN
         IF v # "" THEN Result(table, "ValidationError", v)
         ELSE IF data.scheduled_end_time - data.scheduled_start_time
                     # total_duration_minutes(data.service_id)
         THEN Result(table, "ValidationError", "duration")
         ELSE Result(table, "", "")

\* A plausible slip: the row is written before the checks are evaluated.
create_appointment_result_insert_first(table, t, data, db_error) ==
    LET c == create_checks(table, t, data, db_error)
        r == create_insert(table, data)
    IN IF c.kind # "" THEN Result(r.table, c.kind, c.detail) ELSE r

\* create_appointment (api.py:28-87), executed without interleaving.
create_appointment_result(table, t, data, db_error) ==
    LET c == create_checks(table, t, data, db_error) IN
    IF c.kind # "" THEN c ELSE create_insert(table, data)


\* The appointment object after update_appointment's setattr loop
\* (api.py:155-157); unsent fields keep the stored value.
apply_update(row, data) ==
    [row EXCEPT
        !.scheduled_start_time =
            IF data.scheduled_start_time = Unset THEN @ ELSE data.scheduled_start_time,
        !.scheduled_end_time =
            IF data.scheduled_end_time = Unset THEN @ ELSE data.scheduled_end_time,
        !.staff_member_id =
            IF data.staff_member_id = Unset THEN @ ELSE data.staff_member_id,
        !.service_id =
            IF data.service_id = Unset THEN @ ELSE data.service_id,
        !.status =
            IF data.status = "unset" THEN @ ELSE data.status]

\* appointment.full_clean(); appointment.save() and the response of
\* update_appointment (api.py:159-186).  full_clean runs clean(), whose
\* AttributeError is no ValidationError and leaves through line 185.
update_write(table, obj) ==
    LET c == clean(table, obj) IN
    IF c = "AttributeError" THEN Result(table, "Exception", c)
    ELSE IF c # "ok" THEN Result(table, "ValidationError", c)
    ELSE LET s == save(table, obj) IN
         IF s.error = "ok" THEN BuildResponse(s.table)
         ELSE Result(table, "Exception", s.error)

\* update_appointment (api.py:122-186)
update_appointment_result(table, t, appointment_id, data, db_error) ==
    IF ~(validate_future_time(t, data.scheduled_start_time)
          /\ validate_future_time(t, data.scheduled_end_time))
    THEN Result(table, "Http422", "past")
    ELSE IF appointment_id \notin 1..Len(table)
    THEN Result(table, "Http404", "appointment")
    ELSE LET row == table[appointment_id]
             timed == data.scheduled_start_time # Unset
                        \/ data.scheduled_end_time # Unset
             staff_member == IF data.staff_member_id = Unset
                             THEN row.staff_member_id ELSE data.staff_member_id
             start_time == IF data.scheduled_start_time = Unset
                           THEN row.scheduled_start_time ELSE data.scheduled_start_time
             end_time == IF data.scheduled_end_time = Unset
                         THEN row.scheduled_end_time ELSE data.scheduled_end_time
             v == IF timed
                  THEN validate_appointment_time(table, t, staff_member, start_time,
                                                 end_time, appointment_id, db_error)
                  ELSE ""
         IN IF v # "" THEN Result(table, "ValidationError", v)
            ELSE update_write(table, apply_update(row, data))

\* The model methods confirm, cancel, check_in, start_service, complete
\* (models.py:280-312): the object after the method's assignments.  Each
\* method's own guard repeats the guard of its endpoint, so behind the
\* endpoint the method always assigns and saves.
method_apply(op, obj, t, reason) ==
    CASE op = "confirm" /\ obj.status = "pending" ->
            [obj EXCEPT !.status = "confirmed"]
      [] op = "cancel" /\ obj.status # "completed" ->
            [obj EXCEPT !.status = "cancelled", !.cancellation_reason = reason]
      [] op = "check_in" /\ obj.status = "confirmed" ->
            [obj EXCEPT !.status = "checked_in", !.actual_start_time = t]
      [] op = "start_service" /\ obj.status = "checked_in" ->
            [obj EXCEPT !.status = "in_progress"]
      [] op = "complete" /\ obj.status = "in_progress" ->
            [obj EXCEPT !.status = "completed", !.actual_end_time = t,
                        !.payment_status = "paid"]
      [] OTHER -> obj

\* The guard each transition endpoint applies before calling the method
\* (api.py:288, 325, 362, 399, 436).
endpoint_guard(op, status) ==
    CASE op = "confirm" -> status = "pending"
      [] op = "cancel" -> status # "completed"
      [] op = "check_in" -> status = "confirmed"
      [] op = "start_service" -> status = "checked_in"
      [] op = "complete" -> status = "in_progress"
      [] OTHER -> FALSE

\* confirm_appointment, cancel_appointment, check_in_appointment,
\* start_service, complete_appointment (api.py:279-461).
transition_result(table, t, appointment_id, op, reason) ==
    IF appointment_id \notin 1..Len(table)
    THEN Result(table, "Http404", "appointment")
    ELSE IF ~endpoint_guard(op, table[appointment_id].status)
    THEN Result(table, "ValidationError", "guard")
    ELSE LET obj == method_apply(op, table[appointment_id], t, reason)
             s == save(table, obj)
         IN IF s.error = "ok" THEN BuildResponse(s.table)
            ELSE Result(table, "Exception", s.error)

\* delete_appointment (api.py:189-210) with SoftDeleteModel.delete
\* (core/models.py:46-54).  Line 199 reads appointment.client.full_name
\* before delete() is reached.
delete_appointment_result(table, t, appointment_id) ==
    IF appointment_id \notin 1..Len(table)
    THEN Result(table, "Http404", "appointment")
    ELSE IF ~Client_has_full_name
    THEN Result(table, "Exception", "AttributeError:full_name")
    ELSE LET obj == [table[appointment_id] EXCEPT !.is_deleted = TRUE, !.deleted_at = t]
             s == save(table, obj)
         IN IF s.error = "ok" THEN Result(s.table, "ok", "")
            ELSE Result(table, "Exception", s.error)

\* Appointment.mark_no_show (models.py:314-318), called on a stored row.  No
\* endpoint wraps it; an exception of save() reaches the caller as raised,
\* and a row in another status is left alone without any error.
mark_no_show_result(table, t, appointment_id) ==
    IF appointment_id \notin 1..Len(table)
    THEN Result(table, "Http404", "appointment")
    ELSE IF table[appointment_id].status \notin {"confirmed", "checked_in"}
    THEN Result(table, "ok", "noop")
    ELSE LET s == save(table, [table[appointment_id] EXCEPT !.status = "no_show"]) IN
         IF s.error = "ok" THEN Result(s.table, "ok", "")
         ELSE Result(table, "Exception", s.error)

(***************************************************************************)
(* Request inputs.                                                         *)
(***************************************************************************)
\* Create payloads.  The ids sent name existing rows, so the Http404 branch
\* of create_checks is not exercised by these inputs.
CreateData ==
    [client_id : ClientIds,
     service_id : ServiceIds,
     staff_member_id : StaffIds,
     scheduled_start_time : TimeGrid,
     scheduled_end_time : TimeGrid,
     notes_null : BOOLEAN]

\* Update payloads (model_dump(exclude_unset=True)): a reschedule (times,
\* staff, service; no status) or a status update (status, optionally staff).
UpdateData ==
    {d \in [scheduled_start_time : TimeGrid \cup {Unset},
            scheduled_end_time : TimeGrid \cup {Unset},
            staff_member_id : StaffIds \cup {Unset},
            service_id : ServiceIds \cup {Unset},
            status : AppointmentStatus \cup {"unset"}] :
        \/ d.status = "unset"
        \/ /\ d.scheduled_start_time = Unset
           /\ d.scheduled_end_time = Unset
           /\ d.service_id = Unset}

TransitionOps == {"confirm", "cancel", "check_in", "start_service", "complete"}

Reasons == {"", "Client request"}

Idle == [pc |-> "idle"]

\* No WorkingHours row is stored.
NoWorkingHours == <<>>

\* No slot generator is running.
NoWalk == [pc |-> "idle"]

\* No model object is held in memory by a caller.
NoInstance == [model |-> "none"]

NoQuery ==
    [subject |-> 0, start_time |-> 0, end_time |-> 0, exclude_appointment_id |-> Unset]

NoResponse == [op |-> "none", kind |-> "", detail |-> "", logged_error |-> FALSE]

Response(op, r, db_error) ==
    [op |-> op, kind |-> r.kind, detail |-> r.detail,
     logged_error |-> db_error /\ r.detail = "unavailable"]

(***************************************************************************)
(* State machine: requests executed one at a time.                         *)
(***************************************************************************)
Init ==
    /\ appointments = <<>>
    /\ now = 0
    /\ response = NoResponse
    /\ inflight = [p \in Procs |-> Idle]
    /\ query = NoQuery
    /\ requested = <<>>
    /\ working_hours = NoWorkingHours
    /\ walk = NoWalk
    /\ instance = NoInstance

\* timezone.now() advances between requests.
Tick ==
    /\ now < MaxNow * SlotStepMinutes
    /\ now' = now + SlotStepMinutes
    /\ UNCHANGED <<appointments, response, inflight, query, requested, working_hours, walk, instance>>

CreateAppointment(data, db_error) ==
    LET r == create_appointment_result(appointments, now, data, db_error) IN
    /\ Len(r.table) <= MaxAppts
    /\ appointments' = r.table
    /\ response' = Response("create", r, db_error)
    /\ requested' = requested \o notification_requests(appointments, r.table)
    /\ UNCHANGED <<now, inflight, query, working_hours, walk, instance>>

UpdateAppointment(appointment_id, data, db_error) ==
    LET r == update_appointment_result(appointments, now, appointment_id, data, db_error) IN
    /\ appointments' = r.table
    /\ response' = Response("update", r, db_error)
    /\ requested' = requested \o notification_requests(appointments, r.table)
    /\ UNCHANGED <<now, inflight, query, working_hours, walk, instance>>

TransitionAppointment(appointment_id, op, reason) ==
    LET r == transition_result(appointments, now, appointment_id, op, reason) IN
    /\ appointments' = r.table
    /\ response' = Response(op, r, FALSE)
    /\ requested' = requested \o notification_requests(appointments, r.table)
    /\ UNCHANGED <<now, inflight, query, working_hours, walk, instance>>

DeleteAppointment(appointment_id) ==
    LET r == delete_appointment_result(appointments, now, appointment_id) IN
    /\ appointments' = r.table
    /\ response' = Response("delete", r, FALSE)
    /\ requested' = requested \o notification_requests(appointments, r.table)
    /\ UNCHANGED <<now, inflight, query, working_hours, walk, instance>>

Create == \E data \in CreateData, db_error \in BOOLEAN : CreateAppointment(data, db_error)

Update ==
    \E appointment_id \in 1..MaxAppts, data \in UpdateData, db_error \in BOOLEAN :
        UpdateAppointment(appointment_id, data, db_error)

Transition ==
    \E appointment_id \in 1..MaxAppts, op \in TransitionOps, reason \in Reasons :
        TransitionAppointment(appointment_id, op, reason)

Delete == \E appointment_id \in 1..MaxAppts : DeleteAppointment(appointment_id)

Next == Tick \/ Create \/ Update \/ Transition \/ Delete

Spec == Init /\ [][Next]_vars


(***************************************************************************)
(* State machine: two create_appointment requests in flight.  The checks   *)
(* (api.py:36-56) and the insert (api.py:58-60) are separate steps; no     *)
(* transaction or lock spans them and the table has no exclusion           *)
(* constraint (models.py:137-148).                                         *)
(***************************************************************************)
ConcurrentCreateData == {d \in CreateData : d.client_id = 1 /\ ~d.notes_null}

InFlight == {p \in Procs : inflight[p].pc = "checked"}

BeginCreate(p, data) ==
    LET c == create_checks(appointments, now, data, FALSE) IN
    /\ inflight[p].pc = "idle"
    /\ Len(appointments) + Cardinality(InFlight) < MaxAppts
    /\ IF c.kind # ""
       THEN /\ response' = Response("create", c, FALSE)
            /\ UNCHANGED inflight
       ELSE /\ inflight' = [inflight EXCEPT ![p] = [pc |-> "checked", data |-> data]]
            /\ UNCHANGED response
    /\ UNCHANGED <<appointments, now, query, requested, working_hours, walk, instance>>

FinishCreate(p) ==
    /\ inflight[p].pc = "checked"
    /\ LET r == create_insert(appointments, inflight[p].data) IN
       /\ appointments' = r.table
       /\ response' = Response("create", r, FALSE)
       /\ requested' = requested \o notification_requests(appointments, r.table)
    /\ inflight' = [inflight EXCEPT ![p] = Idle]
    /\ UNCHANGED <<now, query, working_hours, walk, instance>>

Begin == \E p \in Procs, data \in ConcurrentCreateData : BeginCreate(p, data)

Finish == \E p \in Procs : FinishCreate(p)

NextConcurrent == Tick \/ Begin \/ Finish

SpecConcurrent == Init /\ [][NextConcurrent]_vars

(***************************************************************************)
(* State machine: the lifecycle operations on stored rows of any status.   *)
(* The table is drawn from rows as the ORM stores them with an explicit    *)
(* status (Appointment.objects.create(status=...); clean() applies the     *)
(* transition rule to existing rows only), with the timestamps, payment    *)
(* status and reason the lifecycle gives a row of that status.             *)
(***************************************************************************)
LifecycleRow(pk, status) ==
    [NewAppointment([client_id |-> 1, service_id |-> 1, staff_member_id |-> pk,
                     scheduled_start_time |-> SlotStepMinutes,
                     scheduled_end_time |-> 2 * SlotStepMinutes,
                     notes_null |-> FALSE])
        EXCEPT !.pk = pk,
               !.status = status,
               !.actual_start_time =
                    IF status \in {"checked_in", "in_progress", "completed"}
                    THEN 0 ELSE Unset,
               !.actual_end_time = IF status = "completed" THEN 0 ELSE Unset,
               !.payment_status = IF status = "completed" THEN "paid" ELSE "pending",
               !.cancellation_reason = IF status = "cancelled" THEN "Client request" ELSE ""]

LifecycleTables ==
    {<<>>} \cup {<<LifecycleRow(1, s)>> : s \in AppointmentStatus}

\* Create payloads of the lifecycle runs: client 1, service 1, notes sent.
LifecycleCreateData ==
    {d \in CreateData : d.client_id = 1 /\ d.service_id = 1 /\ ~d.notes_null}

\* Update payloads that carry a status (and optionally a staff member).
StatusUpdateData == {d \in UpdateData : d.status # "unset"}

InitLifecycle ==
    /\ appointments \in LifecycleTables
    /\ now = 0
    /\ response = NoResponse
    /\ inflight = [p \in Procs |-> Idle]
    /\ query = NoQuery
    /\ requested = <<>>
    /\ working_hours = NoWorkingHours
    /\ walk = NoWalk
    /\ instance = NoInstance

MarkNoShow(appointment_id) ==
    LET r == mark_no_show_result(appointments, now, appointment_id) IN
    /\ appointments' = r.table
    /\ response' = Response("mark_no_show", r, FALSE)
    /\ requested' = requested \o notification_requests(appointments, r.table)
    /\ UNCHANGED <<now, inflight, query, working_hours, walk, instance>>

LifecycleCreate == \E data \in LifecycleCreateData : CreateAppointment(data, FALSE)

StatusUpdate ==
    \E appointment_id \in 1..MaxAppts, data \in StatusUpdateData :
        UpdateAppointment(appointment_id, data, FALSE)

NoShow == \E appointment_id \in 1..MaxAppts : MarkNoShow(appointment_id)

NextLifecycle == Tick \/ LifecycleCreate \/ StatusUpdate \/ Transition \/ NoShow \/ Delete

SpecLifecycle == InitLifecycle /\ [][NextLifecycle]_vars

(***************************************************************************)
(* Model methods called on an Appointment object a caller has loaded:      *)
(* SoftDeleteModel.delete and restore (core/models.py:46-62) and           *)
(* Appointment.cancel (models.py:286-291).  instance is the object as the  *)
(* caller sees it after the call; appointments is what is stored.          *)
(***************************************************************************)
\* Each method assigns its fields on the object and then calls save(); the
\* object keeps the assignments whether or not save() raises.
method_call(table, obj) ==
    LET s == save(table, obj) IN
    [obj |-> obj, table |-> s.table, error |-> s.error]

\* SoftDeleteModel.delete (core/models.py:46-54)
delete(table, t, obj) ==
    method_call(table, [obj EXCEPT !.is_deleted = TRUE, !.deleted_at = t])

\* SoftDeleteModel.restore (core/models.py:56-62)
restore(table, obj) ==
    method_call(table, [obj EXCEPT !.is_deleted = FALSE, !.deleted_at = Unset])

\* Appointment.cancel (models.py:286-291): nothing happens to a completed
\* appointment, and nothing is raised for it.
cancel(table, obj, reason) ==
    IF obj.status # "completed"
    THEN method_call(table, [obj EXCEPT !.status = "cancelled",
                                        !.cancellation_reason = reason])
    ELSE [obj |-> obj, table |-> table, error |-> "noop"]

\* Stored rows of the method runs: one row of any status.
InstanceTables == {<<LifecycleRow(1, status)>> : status \in AppointmentStatus}

InitInstance ==
    /\ appointments \in InstanceTables
    /\ now = 0
    /\ response = NoResponse
    /\ inflight = [p \in Procs |-> Idle]
    /\ query = NoQuery
    /\ requested = <<>>
    /\ working_hours = NoWorkingHours
    /\ walk = NoWalk
    /\ instance = NoInstance

\* The caller loads row appointment_id and calls the method on it.
MethodCall(op, r) ==
    /\ appointments' = r.table
    /\ instance' = [model |-> "Appointment", obj |-> r.obj]
    /\ response' = [op |-> op,
                    kind |-> IF r.error \in {"ok", "noop"} THEN "ok" ELSE "Exception",
                    detail |-> r.error, logged_error |-> FALSE]
    /\ requested' = requested \o notification_requests(appointments, r.table)
    /\ UNCHANGED <<now, inflight, query, working_hours, walk>>

DeleteCall(appointment_id) ==
    /\ appointment_id \in 1..Len(appointments)
    /\ MethodCall("delete()", delete(appointments, now, appointments[appointment_id]))

RestoreCall(appointment_id) ==
    /\ appointment_id \in 1..Len(appointments)
    /\ MethodCall("restore()", restore(appointments, appointments[appointment_id]))

CancelCall(appointment_id, reason) ==
    /\ appointment_id \in 1..Len(appointments)
    /\ MethodCall("cancel()", cancel(appointments, appointments[appointment_id], reason))

SoftDelete == \E appointment_id \in 1..MaxAppts : DeleteCall(appointment_id)

Restore == \E appointment_id \in 1..MaxAppts : RestoreCall(appointment_id)

Cancel ==
    \E appointment_id \in 1..MaxAppts, reason \in Reasons :
        CancelCall(appointment_id, reason)

NextInstance == Tick \/ SoftDelete \/ Restore \/ Cancel \/ Delete

SpecInstance == InitInstance /\ [][NextInstance]_vars

(***************************************************************************)
(* The conflict checks as functions of a stored table: the table is drawn  *)
(* from all tables of at most MaxRows rows (any subject, any stored        *)
(* interval, any status), and one query, whose data access succeeds, is    *)
(* applied to it.                                                          *)
(***************************************************************************)
RowSpecs ==
    {r \in [client_id : ClientIds, staff_member_id : StaffIds,
            scheduled_start_time : TimeGrid, scheduled_end_time : TimeGrid,
            status : AppointmentStatus] :
        r.scheduled_start_time < r.scheduled_end_time}

StoredRow(pk, r) ==
    [NewAppointment([client_id |-> r.client_id,
                     service_id |-> IF r.scheduled_end_time - r.scheduled_start_time
                                          = total_duration_minutes(1) THEN 1 ELSE 2,
                     staff_member_id |-> r.staff_member_id,
                     scheduled_start_time |-> r.scheduled_start_time,
                     scheduled_end_time |-> r.scheduled_end_time,
                     notes_null |-> FALSE])
        EXCEPT !.pk = pk, !.status = r.status]

StoredTables ==
    UNION {{[i \in 1..n |-> StoredRow(i, f[i])] : f \in [1..n -> RowSpecs]} : n \in 0..MaxRows}

Queries ==
    [subject : StaffIds, start_time : TimeGrid, end_time : TimeGrid,
     exclude_appointment_id : (1..MaxRows) \cup {Unset}]

InitQuery ==
    /\ appointments \in StoredTables
    /\ now = 0
    /\ response = NoResponse
    /\ inflight = [p \in Procs |-> Idle]
    /\ query = NoQuery
    /\ requested = <<>>
    /\ working_hours = NoWorkingHours
    /\ walk = NoWalk
    /\ instance = NoInstance

Answer(op, available) ==
    [op |-> op, kind |-> IF available THEN "available" ELSE "conflict",
     detail |-> "", logged_error |-> FALSE]

CheckStaff(q) ==
    /\ response.op = "none"
    /\ query' = q
    /\ response' = Answer("check_staff",
            check_staff_availability(appointments, q.subject, q.start_time, q.end_time,
                                     q.exclude_appointment_id, FALSE))
    /\ UNCHANGED <<appointments, now, inflight, requested, working_hours, walk, instance>>

CheckClient(q) ==
    /\ response.op = "none"
    /\ query' = q
    /\ response' = Answer("check_client",
            check_client_availability(appointments, q.subject, q.start_time, q.end_time,
                                      q.exclude_appointment_id, FALSE))
    /\ UNCHANGED <<appointments, now, inflight, requested, working_hours, walk, instance>>

QueryStaff == \E q \in Queries : CheckStaff(q)

QueryClient == \E q \in Queries : CheckClient(q)

NextQuery == QueryStaff \/ QueryClient

SpecQuery == InitQuery /\ [][NextQuery]_vars


(***************************************************************************)
(* Slot generation: appointments/api.py check_availability,                *)
(* AppointmentService.get_available_time_slots and                         *)
(* StaffAvailabilityService.get_available_time_slots over a drawn          *)
(* WorkingHours table and a drawn appointments table.  A datetime is       *)
(* minutes since midnight of date 0; a TimeField is minutes since          *)
(* midnight.  Date 0 is a Monday.                                          *)
(***************************************************************************)
DayMinutes == 24 * 60

\* date.isoweekday() (api.py:480): 1 = Monday.
isoweekday(date) == (date % 7) + 1

\* datetime.combine(date, time) (api.py:500-501)
combine(date, time) == date * DayMinutes + time

\* start_time.strftime("%H:%M") (api.py:515): hour and minute of the clock.
strftime_HM(datetime) == <<(datetime % DayMinutes) \div 60, datetime % 60>>

\* USE_TZ is set in config/settings/base.py, which is not part of the
\* sources at hand.  With USE_TZ the stored datetimes are aware while
\* datetime.combine gives naive ones, and comparing the two raises
\* TypeError; the single-timezone reading of the specification is that
\* they compare.
datetimes_compare == TRUE

\* A plausible slip: only pending appointments are looked at.
existing_appointments_pending_only(table, staff_member, date) ==
    {i \in 1..Len(table) :
        /\ table[i].staff_member_id = staff_member
        /\ table[i].scheduled_start_time >= combine(date, 0)
        /\ table[i].scheduled_start_time <= combine(date, DayMinutes - 1)
        /\ table[i].status = "pending"}

\* The queryset existing_appointments (services.py:130-140) as the set of
\* primary keys it yields.
existing_appointments(table, staff_member, date) ==
    {i \in 1..Len(table) :
        /\ table[i].staff_member_id = staff_member
        /\ table[i].scheduled_start_time >= combine(date, 0)
        /\ table[i].scheduled_start_time <= combine(date, DayMinutes - 1)
        /\ table[i].status \in {"pending", "confirmed", "checked_in", "in_progress"}}

\* The test of services.py:150-154 for one candidate slot.
has_conflict(table, existing, current_time, slot_end) ==
    \E i \in existing :
        /\ current_time < table[i].scheduled_end_time
        /\ slot_end > table[i].scheduled_start_time

RECURSIVE slot_walk(_, _, _, _, _)
\* The while loop of services.py:146-161 from current_time on.
slot_walk(table, existing, service_duration, current_time, working_hours_end) ==
    IF current_time + service_duration > working_hours_end THEN <<>>
    ELSE (IF has_conflict(table, existing, current_time, current_time + service_duration)
          THEN <<>>
          ELSE <<<<current_time, current_time + service_duration>>>>)
         \o slot_walk(table, existing, service_duration,
                      current_time + SlotStepMinutes, working_hours_end)

\* A plausible slip: every stored appointment of the staff member on the
\* date blocks its slot, whatever its status.
get_available_time_slots_any_status(table, staff_member, date, service_duration, working_hours_start, working_hours_end) ==
    LET existing == {i \in 1..Len(table) :
                        /\ table[i].staff_member_id = staff_member
                        /\ table[i].scheduled_start_time >= combine(date, 0)
                        /\ table[i].scheduled_start_time <= combine(date, DayMinutes - 1)}
    IN slot_walk(table, existing, service_duration, working_hours_start, working_hours_end)

\* AppointmentService.get_available_time_slots (services.py:104-166).  The
\* except branch (lines 164-166) answers [] when a comparison raises.
get_available_time_slots(table, staff_member, date, service_duration, working_hours_start, working_hours_end) ==
    LET existing == existing_appointments(table, staff_member, date) IN
    IF ~datetimes_compare /\ existing # {}
          /\ working_hours_start + service_duration <= working_hours_end
    THEN <<>>
    ELSE slot_walk(table, existing, service_duration, working_hours_start, working_hours_end)

\* staff_member.working_hours.get(day_of_week=..., is_available=True)
\* (api.py:483-486) and .get(day_of_week=...) (staff/models.py:251): the
\* matching rows; none raises DoesNotExist.
working_hours_get(hours, staff_profile, day_of_week, only_available) ==
    SelectSeq(hours, LAMBDA w :
        /\ w.staff_profile = staff_profile
        /\ w.day_of_week = day_of_week
        /\ (only_available => w.is_available))

\* A plausible slip: a missing schedule is answered as an error.
check_availability_result_raises(table, hours, data) ==
    LET found == working_hours_get(hours, data.staff_member_id, isoweekday(data.date), TRUE) IN
    IF found = <<>>
    THEN [kind |-> "Exception", slots |-> <<>>]
    ELSE LET slots == get_available_time_slots(table, data.staff_member_id, data.date,
                          total_duration_minutes(data.service_id),
                          combine(data.date, found[1].start_time),
                          combine(data.date, found[1].end_time))
         IN [kind |-> "ok", slots |-> [k \in 1..Len(slots) |-> strftime_HM(slots[k][1])]]

\* check_availability (api.py:464-529): the response kind and its
\* available_slots, as formatted start times.
check_availability_result(table, hours, data) ==
    LET found == working_hours_get(hours, data.staff_member_id, isoweekday(data.date), TRUE) IN
    IF found = <<>>
    THEN [kind |-> "ok", slots |-> <<>>]
    ELSE LET slots == get_available_time_slots(table, data.staff_member_id, data.date,
                          total_duration_minutes(data.service_id),
                          combine(data.date, found[1].start_time),
                          combine(data.date, found[1].end_time))
         IN [kind |-> "ok", slots |-> [k \in 1..Len(slots) |-> strftime_HM(slots[k][1])]]

RECURSIVE staff_slot_walk(_, _, _, _)
\* The while loop of staff/services.py:82-97 on the clock of one day; both
\* branches advance by the service duration.
staff_slot_walk(w, service_duration, current_time, end_datetime) ==
    IF current_time + service_duration > end_datetime THEN <<>>
    ELSE (IF /\ w.break_start_time # Unset
             /\ w.break_end_time # Unset
             /\ ~(current_time + service_duration <= w.break_start_time
                    \/ current_time >= w.break_end_time)
          THEN <<>>
          ELSE <<<<current_time, current_time + service_duration>>>>)
         \o staff_slot_walk(w, service_duration, current_time + service_duration,
                            end_datetime)

\* StaffAvailabilityService.get_available_time_slots (staff/services.py:54-99)
staff_get_available_time_slots(hours, staff_profile, target_date, service_duration) ==
    LET found == working_hours_get(hours, staff_profile, isoweekday(target_date), FALSE) IN
    IF found = <<>> THEN <<>>
    ELSE IF ~found[1].is_available THEN <<>>
    ELSE staff_slot_walk(found[1], service_duration, found[1].start_time,
                         found[1].end_time)

\* WorkingHours rows as WorkingHours.clean lets them be stored
\* (staff/models.py:376-392): an available row has start < end and a break
\* inside the hours.  09:00 = 540, 11:30 = 690, 12:00 = 720, 13:00 = 780,
\* 17:00 = 1020.
WorkingHoursRows ==
    {w \in [staff_profile : {1},
            day_of_week : {1, 2},
            start_time : {540, 690},
            end_time : {600, 780, 1020},
            is_available : BOOLEAN,
            break_start_time : {Unset, 720},
            break_end_time : {Unset, 780}] :
        /\ (w.break_start_time = Unset) = (w.break_end_time = Unset)
        /\ w.is_available =>
            /\ w.start_time < w.end_time
            /\ w.break_start_time # Unset =>
                (w.break_start_time >= w.start_time /\ w.break_end_time <= w.end_time)}

WorkingHoursTables == {<<>>} \cup {<<w>> : w \in WorkingHoursRows}

\* Stored appointments of the slot runs: at most one row of either staff
\* member, in any status, starting 09:30, 10:00 or 12:00 on date 0 or
\* 10:00 on date 1, for either service.
SlotRows ==
    [staff_member_id : StaffIds,
     scheduled_start_time : {570, 600, 720, DayMinutes + 600},
     service_id : ServiceIds,
     status : AppointmentStatus]

SlotRow(r) ==
    [NewAppointment([client_id |-> 1, service_id |-> r.service_id,
                     staff_member_id |-> r.staff_member_id,
                     scheduled_start_time |-> r.scheduled_start_time,
                     scheduled_end_time |-> r.scheduled_start_time
                                              + total_duration_minutes(r.service_id),
                     notes_null |-> FALSE])
        EXCEPT !.pk = 1, !.status = r.status]

SlotTables == {<<>>} \cup {<<SlotRow(r)>> : r \in SlotRows}

\* AvailabilityCheckSchema (schemas.py:271-298) for existing staff and service.
AvailabilityData == [staff_member_id : {1}, date : {0, 1}, service_id : ServiceIds]

InitSlots ==
    /\ appointments \in SlotTables
    /\ working_hours \in WorkingHoursTables
    /\ now = 0
    /\ response = NoResponse
    /\ inflight = [p \in Procs |-> Idle]
    /\ query = NoQuery
    /\ requested = <<>>
    /\ walk = NoWalk
    /\ instance = NoInstance

CheckAvailability(data) ==
    LET r == check_availability_result(appointments, working_hours, data) IN
    /\ response.op = "none"
    /\ query' = data
    /\ response' = [op |-> "availability", kind |-> r.kind, detail |-> "",
                    logged_error |-> FALSE, slots |-> r.slots]
    /\ UNCHANGED <<appointments, now, inflight, requested, working_hours, walk, instance>>

StaffSlots(data) ==
    /\ response.op = "none"
    /\ query' = data
    /\ response' = [op |-> "staff_slots", kind |-> "ok", detail |-> "",
                    logged_error |-> FALSE,
                    slots |-> staff_get_available_time_slots(working_hours,
                                  data.staff_member_id, data.date,
                                  total_duration_minutes(data.service_id))]
    /\ UNCHANGED <<appointments, now, inflight, requested, working_hours, walk, instance>>

Availability == \E data \in AvailabilityData : CheckAvailability(data)

StaffAvailability == \E data \in AvailabilityData : StaffSlots(data)

NextSlots == Availability \/ StaffAvailability

SpecSlots == InitSlots /\ [][NextSlots]_vars

(***************************************************************************)
(* Slot generation, one loop iteration per step: the while loops of        *)
(* appointments/services.py:146-161 and staff/services.py:82-97 called     *)
(* with any integer duration.  walk holds the locals of the running call.  *)
(***************************************************************************)
\* Iterations followed per call; larger than the longest call that ends.
MaxIterations == 80

\* datetime.min, the lower end of Python's datetime range, brought to the
\* calendar of the model: one day before date 0.  Going below it raises
\* OverflowError.
DatetimeMin == 0 - DayMinutes

\* service_duration arguments: -30, 0, 30, 60.
WalkDurations == {0 - 30, 0, 30, 60}

\* One stored Monday row of staff member 1.
WalkHours == {w \in WorkingHoursRows : w.day_of_week = 1}

\* No appointment, or one of staff member 1 at 10:00-10:30 on date 0,
\* pending or cancelled.
WalkTables ==
    {<<>>} \cup
    {<<SlotRow([staff_member_id |-> 1, scheduled_start_time |-> 600,
                service_id |-> 1, status |-> st])>> : st \in {"pending", "cancelled"}}

InitWalk ==
    /\ appointments \in WalkTables
    /\ working_hours \in {<<w>> : w \in WalkHours}
    /\ now = 0
    /\ response = NoResponse
    /\ inflight = [p \in Procs |-> Idle]
    /\ query = NoQuery
    /\ requested = <<>>
    /\ walk = NoWalk
    /\ instance = NoInstance

\* The locals of a call that has reached its while loop.
WalkLocals(generator, service_duration, current_time, working_hours_end) ==
    [pc |-> "loop", generator |-> generator, service_duration |-> service_duration,
     current_time |-> current_time, working_hours_end |-> working_hours_end,
     slots |-> <<>>, iterations |-> 0, raised |-> ""]

\* The call returns slots.
WalkReturn(w, slots) == [w EXCEPT !.pc = "returned", !.slots = slots]

\* AppointmentService.get_available_time_slots called as check_availability
\* calls it (api.py:499-507), for date 0 and the stored available row, up
\* to the loop (services.py:125-144).
AppointmentWalkCall(service_duration) ==
    /\ walk.pc = "idle"
    /\ working_hours[1].is_available
    /\ walk' = WalkLocals("appointments", service_duration,
                          combine(0, working_hours[1].start_time),
                          combine(0, working_hours[1].end_time))
    /\ UNCHANGED <<appointments, now, response, inflight, query, requested,
                   working_hours, instance>>

\* StaffAvailabilityService.get_available_time_slots for date 0, up to the
\* loop (staff/services.py:68-80).
StaffWalkCall(service_duration) ==
    LET found == working_hours_get(working_hours, 1, isoweekday(0), FALSE) IN
    /\ walk.pc = "idle"
    /\ walk' = IF found = <<>> \/ ~found[1].is_available
               THEN WalkReturn(WalkLocals("staff", service_duration, 0, 0), <<>>)
               ELSE WalkLocals("staff", service_duration,
                               combine(0, found[1].start_time),
                               combine(0, found[1].end_time))
    /\ UNCHANGED <<appointments, now, response, inflight, query, requested,
                   working_hours, instance>>

\* One evaluation of the loop condition and, if it holds, of the body
\* (services.py:146-161).  Any exception ends the call with [] (lines
\* 164-166).
appointment_walk_step(table, w) ==
    LET existing == existing_appointments(table, 1, 0)
        slot_end == w.current_time + w.service_duration
    IN IF slot_end < DatetimeMin THEN WalkReturn(w, <<>>)
       ELSE IF slot_end > w.working_hours_end THEN WalkReturn(w, w.slots)
       ELSE IF ~datetimes_compare /\ existing # {} THEN WalkReturn(w, <<>>)
       ELSE [w EXCEPT
                !.slots = IF has_conflict(table, existing, w.current_time, slot_end)
                          THEN @ ELSE Append(@, <<w.current_time, slot_end>>),
                !.current_time = @ + SlotStepMinutes,
                !.iterations = @ + 1]

\* One evaluation of the loop condition and, if it holds, of the body
\* (staff/services.py:82-97).  slot_start and slot_end are clock times;
\* nothing catches an exception.
staff_walk_step(hours, w) ==
    LET slot_start == w.current_time % DayMinutes
        slot_end == (w.current_time + w.service_duration) % DayMinutes
    IN IF w.current_time + w.service_duration < DatetimeMin
       THEN [w EXCEPT !.pc = "raised", !.raised = "OverflowError"]
       ELSE IF w.current_time + w.service_duration > w.working_hours_end
       THEN WalkReturn(w, w.slots)
       ELSE [w EXCEPT
                !.slots = IF /\ hours.break_start_time # Unset
                             /\ hours.break_end_time # Unset
                             /\ ~(slot_end <= hours.break_start_time
                                    \/ slot_start >= hours.break_end_time)
                          THEN @ ELSE Append(@, <<slot_start, slot_end>>),
                !.current_time = @ + w.service_duration,
                !.iterations = @ + 1]

WalkStep ==
    /\ walk.pc = "loop"
    /\ walk.iterations < MaxIterations
    /\ walk' = IF walk.generator = "appointments"
               THEN appointment_walk_step(appointments, walk)
               ELSE staff_walk_step(working_hours[1], walk)
    /\ UNCHANGED <<appointments, now, response, inflight, query, requested,
                   working_hours, instance>>

AppointmentWalk == \E d \in WalkDurations : AppointmentWalkCall(d)

StaffWalk == \E d \in WalkDurations : StaffWalkCall(d)

NextWalk == AppointmentWalk \/ StaffWalk \/ WalkStep

\* A running call keeps running: the interpreter executes the next
\* iteration.
SpecWalk == InitWalk /\ [][NextWalk]_vars /\ WF_vars(WalkStep)

(***************************************************************************)
(* staff/models.py WorkingHours, staff/services.py WorkingHoursService and *)
(* staff/api.py update_staff_schedule.  The WorkingHours table is a        *)
(* sequence in primary-key order; every statement commits on its own, no   *)
(* handler opens a transaction.                                            *)
(***************************************************************************)
\* Rows written per schedule replacement.
MaxEntries == 2

\* WorkingHours.clean (staff/models.py:376-392): nothing is looked at for
\* a row that is not available.
working_hours_clean(obj) ==
    IF ~obj.is_available THEN "ok"
    ELSE IF obj.start_time >= obj.end_time THEN "ValidationError:start_end"
    ELSE IF obj.break_start_time # Unset /\ obj.break_end_time # Unset
    THEN (IF obj.break_start_time >= obj.break_end_time
          THEN "ValidationError:break_order"
          ELSE IF obj.break_start_time < obj.start_time
                    \/ obj.break_end_time > obj.end_time
          THEN "ValidationError:break_outside"
          ELSE "ok")
    ELSE "ok"

\* UniqueConstraint(staff_profile, day_of_week) (staff/models.py:360-365)
\* against the rows other than the one at index self.
unique_staff_day_working_hours(table, obj, self) ==
    \A i \in 1..Len(table) :
        i # self =>
            ~(table[i].staff_profile = obj.staff_profile
                /\ table[i].day_of_week = obj.day_of_week)

\* WorkingHours.save (staff/models.py:394-397): clean(), then the INSERT
\* (self = 0) or UPDATE, which the unique constraint can refuse.
working_hours_save(table, obj, self) ==
    IF working_hours_clean(obj) # "ok"
    THEN [table |-> table, error |-> working_hours_clean(obj)]
    ELSE IF ~unique_staff_day_working_hours(table, obj, self)
    THEN [table |-> table, error |-> "IntegrityError"]
    ELSE [table |-> IF self = 0 THEN Append(table, obj)
                    ELSE [table EXCEPT ![self] = obj],
          error |-> "ok"]

\* Model.full_clean as the services call it (staff/services.py:179, 207):
\* clean() and the uniqueness validation.
working_hours_full_clean(table, obj, self) ==
    IF working_hours_clean(obj) # "ok" THEN working_hours_clean(obj)
    ELSE IF ~unique_staff_day_working_hours(table, obj, self)
    THEN "ValidationError:unique"
    ELSE "ok"

\* WorkingHoursService.create_working_hours (staff/services.py:139-182)
create_working_hours_result(table, data) ==
    IF working_hours_full_clean(table, data, 0) # "ok"
    THEN [table |-> table, error |-> working_hours_full_clean(table, data, 0)]
    ELSE working_hours_save(table, data, 0)

\* WorkingHoursService.update_working_hours (staff/services.py:184-210)
\* with every field but staff_profile given as a keyword.
update_working_hours_result(table, self, data) ==
    IF working_hours_full_clean(table, data, self) # "ok"
    THEN [table |-> table, error |-> working_hours_full_clean(table, data, self)]
    ELSE working_hours_save(table, data, self)

\* WorkingHoursSchema.validate_times (staff/schemas.py:60-78)
validate_times(entry) == working_hours_clean(entry) = "ok"

RECURSIVE create_each(_, _, _)
\* The for loop of update_staff_schedule (staff/api.py:163-173) from entry
\* k on: WorkingHours.objects.create per entry; the first failure ends the
\* request with the rows written so far kept.
create_each(table, entries, k) ==
    IF k > Len(entries) THEN [table |-> table, error |-> "ok"]
    ELSE LET s == working_hours_save(table, entries[k], 0) IN
         IF s.error # "ok" THEN s
         ELSE create_each(s.table, entries, k + 1)

\* update_staff_schedule (staff/api.py:153-175): the payload is validated
\* entry by entry before the handler runs; the handler deletes the rows of
\* the staff member (QuerySet.delete, line 159) and creates the entries.
update_staff_schedule_result(table, staff_id, entries) ==
    IF \E k \in 1..Len(entries) : ~validate_times(entries[k])
    THEN [table |-> table, error |-> "422"]
    ELSE create_each(SelectSeq(table, LAMBDA w : w.staff_profile # staff_id),
                     entries, 1)

\* A plausible slip: the break is not subtracted.
duration_minutes_ignores_break(obj) ==
    IF ~obj.is_available THEN 0
    ELSE IF obj.end_time - obj.start_time > 0 THEN obj.end_time - obj.start_time ELSE 0

\* WorkingHours.duration_minutes (staff/models.py:399-413)
duration_minutes(obj) ==
    IF ~obj.is_available THEN 0
    ELSE LET total_minutes == obj.end_time - obj.start_time
             break_minutes ==
                 IF obj.break_start_time # Unset /\ obj.break_end_time # Unset
                 THEN obj.break_end_time - obj.break_start_time ELSE 0
         IN IF total_minutes - break_minutes > 0
            THEN total_minutes - break_minutes ELSE 0

\* Keyword arguments and payload entries: Monday rows with hours from
\* 09:00 or 10:30 to 09:00 or 12:00 and a break from 10:00 or 12:00 to
\* 11:00, each part optional; one Tuesday row 09:00-12:00.
WorkingHoursData ==
    [staff_profile : {1}, day_of_week : {1},
     start_time : {540, 630}, end_time : {540, 720},
     is_available : BOOLEAN,
     break_start_time : {Unset, 600, 720},
     break_end_time : {Unset, 660}]
    \cup
    {[staff_profile |-> 1, day_of_week |-> 2, start_time |-> 540, end_time |-> 720,
      is_available |-> TRUE, break_start_time |-> Unset, break_end_time |-> Unset]}

\* Entries of the schedule payloads: a valid Monday, a Monday off whose
\* break is reversed, a Monday the schema refuses, and the Tuesday.
ScheduleEntries ==
    {w \in WorkingHoursData :
        \/ w.day_of_week = 2
        \/ /\ w.start_time = 540 /\ w.end_time = 720
           /\ w.is_available /\ w.break_start_time = 600 /\ w.break_end_time = 660
        \/ /\ w.start_time = 540 /\ w.end_time = 720
           /\ ~w.is_available /\ w.break_start_time = 720 /\ w.break_end_time = 660
        \/ /\ w.start_time = 630 /\ w.end_time = 540
           /\ w.is_available /\ w.break_start_time = Unset /\ w.break_end_time = Unset}

\* ScheduleUpdateSchema.working_hours (staff/schemas.py:133-135)
SchedulePayloads ==
    UNION {[1..n -> ScheduleEntries] : n \in 0..MaxEntries}

InitSchedule ==
    /\ appointments = <<>>
    /\ working_hours = NoWorkingHours
    /\ now = 0
    /\ response = NoResponse
    /\ inflight = [p \in Procs |-> Idle]
    /\ query = NoQuery
    /\ requested = <<>>
    /\ walk = NoWalk
    /\ instance = NoInstance

ScheduleResponse(op, error) ==
    [op |-> op, kind |-> IF error = "ok" THEN "ok" ELSE "Exception",
     detail |-> error, logged_error |-> FALSE]

CreateWorkingHours(data) ==
    LET r == create_working_hours_result(working_hours, data) IN
    /\ working_hours' = r.table
    /\ instance' = [model |-> "WorkingHours", obj |-> data]
    /\ response' = ScheduleResponse("create_working_hours", r.error)
    /\ UNCHANGED <<appointments, now, inflight, query, requested, walk>>

UpdateWorkingHours(self, data) ==
    LET r == update_working_hours_result(working_hours, self, data) IN
    /\ self \in 1..Len(working_hours)
    /\ working_hours' = r.table
    /\ instance' = [model |-> "WorkingHours", obj |-> data]
    /\ response' = ScheduleResponse("update_working_hours", r.error)
    /\ UNCHANGED <<appointments, now, inflight, query, requested, walk>>

UpdateStaffSchedule(entries) ==
    LET r == update_staff_schedule_result(working_hours, 1, entries) IN
    /\ working_hours' = r.table
    /\ response' = ScheduleResponse("update_staff_schedule", r.error)
    /\ UNCHANGED <<appointments, now, inflight, query, requested, walk, instance>>

\* A caller reads duration_minutes of the object it holds.
DurationMinutes ==
    /\ instance.model = "WorkingHours"
    /\ response.op # "duration_minutes"
    /\ response' = [op |-> "duration_minutes", kind |-> "ok", detail |-> "",
                    logged_error |-> FALSE, value |-> duration_minutes(instance.obj)]
    /\ UNCHANGED <<appointments, now, inflight, query, requested, working_hours,
                   walk, instance>>

CreateHours == \E data \in WorkingHoursData : CreateWorkingHours(data)

UpdateHours ==
    \E self \in 1..MaxEntries : \E data \in WorkingHoursData :
        UpdateWorkingHours(self, data)

ReplaceSchedule == \E entries \in SchedulePayloads : UpdateStaffSchedule(entries)

NextSchedule == CreateHours \/ UpdateHours \/ ReplaceSchedule \/ DurationMinutes

SpecSchedule == InitSchedule /\ [][NextSchedule]_vars

(***************************************************************************)
(* Properties.                                                             *)
(***************************************************************************)
Rows == 1..Len(appointments)

\* Half-open overlap of two stored rows, written out on their fields.
RowsOverlap(a, b) ==
    /\ a.scheduled_start_time < b.scheduled_end_time
    /\ b.scheduled_start_time < a.scheduled_end_time

\* C1: after any sequence of create, update, status-transition, cancel and
\* delete requests executed one at a time, no two distinct non-cancelled
\* appointments of the same staff member overlap (half-open intervals).
C1_NoStaffDoubleBooking ==
    \A i, j \in Rows :
        (/\ i # j
         /\ appointments[i].staff_member_id = appointments[j].staff_member_id
         /\ appointments[i].status # "cancelled"
         /\ appointments[j].status # "cancelled")
        => ~RowsOverlap(appointments[i], appointments[j])

\* Two back-to-back appointments of one staff member are stored and a
\* create request for that staff member was refused as unavailable.
C1_Witness ==
    /\ response.op = "create"
    /\ response.detail = "unavailable"
    /\ ~response.logged_error
    /\ \E i, j \in Rows :
        /\ appointments[i].staff_member_id = appointments[j].staff_member_id
        /\ appointments[i].scheduled_end_time = appointments[j].scheduled_start_time

\* C2: after any sequence of create and update requests executed one at a
\* time, no two distinct non-cancelled appointments of the same client
\* overlap (half-open intervals).
C2_NoClientDoubleBooking ==
    \A i, j \in Rows :
        (/\ i # j
         /\ appointments[i].client_id = appointments[j].client_id
         /\ appointments[i].status # "cancelled"
         /\ appointments[j].status # "cancelled")
        => ~RowsOverlap(appointments[i], appointments[j])


\* C3: the check and the insert of create_appointment are separate steps:
\* a request that passed its checks is inserted whatever other requests
\* inserted in between, so two concurrent requests for one staff member and
\* overlapping intervals can both be stored.
C3_CheckedRequestIsInserted ==
    [][\A p \in Procs :
        (inflight[p].pc = "checked" /\ FinishCreate(p))
        => /\ Len(appointments') = Len(appointments) + 1
           /\ appointments'[Len(appointments')].staff_member_id
                = inflight[p].data.staff_member_id
           /\ appointments'[Len(appointments')].scheduled_start_time
                = inflight[p].data.scheduled_start_time
           /\ appointments'[Len(appointments')].status = "pending"]_vars

\* Both racing requests are stored: two overlapping pending appointments
\* of one staff member.
C3_Witness ==
    \E i, j \in Rows :
        /\ i # j
        /\ appointments[i].staff_member_id = appointments[j].staff_member_id
        /\ appointments[i].status = "pending"
        /\ appointments[j].status = "pending"
        /\ RowsOverlap(appointments[i], appointments[j])
        /\ \A p \in Procs : inflight[p].pc = "idle"

SubjectOf(row) ==
    IF response.op = "check_staff" THEN row.staff_member_id ELSE row.client_id

\* The stored rows a query looks at: same subject, not the excluded id.
Scanned(i) ==
    /\ SubjectOf(appointments[i]) = query.subject
    /\ (query.exclude_appointment_id # Unset
            => appointments[i].pk # query.exclude_appointment_id)

OverlapsQuery(i) ==
    /\ appointments[i].scheduled_start_time < query.end_time
    /\ query.start_time < appointments[i].scheduled_end_time

Answered == response.op \in {"check_staff", "check_client"}

\* C4: the conflict predicate is the half-open overlap rule: a proposed
\* [s, e) conflicts with a counted appointment [a, b) iff a < e and s < b
\* (touching endpoints do not conflict), and the relation is symmetric.
C4_HalfOpenOverlapRule ==
    /\ Answered =>
        ((response.kind = "conflict")
            <=> \E i \in Rows :
                    /\ Scanned(i)
                    /\ appointments[i].status # "cancelled"
                    /\ OverlapsQuery(i))
    /\ \A i, j \in Rows :
        (appointments[i].status # "cancelled" /\ appointments[j].status # "cancelled")
        => (conflict_query(appointments[i], "staff_member_id",
                           appointments[i].staff_member_id,
                           appointments[j].scheduled_start_time,
                           appointments[j].scheduled_end_time, Unset)
            <=> conflict_query(appointments[j], "staff_member_id",
                               appointments[j].staff_member_id,
                               appointments[i].scheduled_start_time,
                               appointments[i].scheduled_end_time, Unset))

\* The subject is reported available for an interval that starts exactly
\* where one of its active appointments ends.
C4_Witness ==
    /\ response.op = "check_staff"
    /\ response.kind = "available"
    /\ query.start_time < query.end_time
    /\ \E i \in Rows :
        /\ Scanned(i)
        /\ appointments[i].status = "confirmed"
        /\ appointments[i].scheduled_end_time = query.start_time

ActiveOrHistoric ==
    {"pending", "confirmed", "checked_in", "in_progress", "completed", "no_show"}

\* C5: both conflict checks ignore exactly the cancelled appointments: an
\* overlapping appointment of the subject in any other status makes the
\* subject unavailable, and overlapping cancelled appointments never do.
C5_OnlyCancelledIgnored ==
    Answered =>
        /\ (\E i \in Rows :
                /\ Scanned(i)
                /\ OverlapsQuery(i)
                /\ appointments[i].status \in ActiveOrHistoric)
            => response.kind = "conflict"
        /\ (\A i \in Rows :
                (Scanned(i) /\ OverlapsQuery(i)) => appointments[i].status = "cancelled")
            => response.kind = "available"

\* A client is reported unavailable because of a no_show appointment while
\* a cancelled appointment overlapping the same interval is ignored.
C5_Witness ==
    /\ response.op = "check_client"
    /\ response.kind = "conflict"
    /\ \E i, j \in Rows :
        /\ Scanned(i) /\ OverlapsQuery(i) /\ appointments[i].status = "cancelled"
        /\ Scanned(j) /\ OverlapsQuery(j) /\ appointments[j].status = "no_show"
        /\ \A k \in Rows \ {i, j} : ~(Scanned(k) /\ OverlapsQuery(k))


\* The payload that reschedules a row to the slot it already occupies.
SameSlot(row) ==
    [scheduled_start_time |-> row.scheduled_start_time,
     scheduled_end_time |-> row.scheduled_end_time,
     staff_member_id |-> Unset,
     service_id |-> Unset,
     status |-> "unset"]

\* C6: an update that sets the start and end of an existing appointment,
\* whose slot is in the future, to the slot it already occupies succeeds
\* and leaves the appointment stored with the same slot and status.
C6_SelfRescheduleSucceeds ==
    [][\A id \in 1..MaxAppts :
        (/\ id \in Rows
         /\ appointments[id].scheduled_start_time >= now
         /\ UpdateAppointment(id, SameSlot(appointments[id]), FALSE))
        => (response'.kind = "ok" /\ appointments' = appointments)]_vars

TotalMinutes(service_id) ==
    Services[service_id].duration_minutes + Services[service_id].preparation_time
        + Services[service_id].cleanup_time

Mismatch(data) ==
    data.scheduled_end_time - data.scheduled_start_time # TotalMinutes(data.service_id)

\* The staff member has a stored, non-cancelled appointment overlapping
\* the payload's interval.
StaffBusy(data) ==
    \E i \in Rows :
        /\ appointments[i].staff_member_id = data.staff_member_id
        /\ appointments[i].status # "cancelled"
        /\ appointments[i].scheduled_start_time < data.scheduled_end_time
        /\ data.scheduled_start_time < appointments[i].scheduled_end_time

\* The times an update works with: the sent value, else the stored one.
Effective(row, data) ==
    [start_time |-> IF data.scheduled_start_time = Unset
                    THEN row.scheduled_start_time ELSE data.scheduled_start_time,
     end_time |-> IF data.scheduled_end_time = Unset
                  THEN row.scheduled_end_time ELSE data.scheduled_end_time]

\* C7: when the data access of the conflict check fails, the check reports
\* the subject unavailable, the create or reschedule request that ran it is
\* rejected as "not available", and no appointment is created or modified.
C7_FailClosed ==
    /\ \A subject \in StaffIds, s \in TimeGrid, e \in TimeGrid :
        /\ ~check_staff_availability(appointments, subject, s, e, Unset, TRUE)
        /\ ~check_client_availability(appointments, subject, s, e, Unset, TRUE)
    /\ \A data \in CreateData :
        (data.scheduled_start_time >= now
            /\ data.scheduled_start_time < data.scheduled_end_time)
        => LET r == create_appointment_result(appointments, now, data, TRUE) IN
           r.kind = "ValidationError" /\ r.detail = "unavailable" /\ r.table = appointments
    /\ \A id \in Rows, data \in UpdateData :
        LET eff == Effective(appointments[id], data) IN
        (/\ data.scheduled_start_time # Unset \/ data.scheduled_end_time # Unset
         /\ validate_future_time(now, data.scheduled_start_time)
         /\ validate_future_time(now, data.scheduled_end_time)
         /\ eff.start_time >= now
         /\ eff.start_time < eff.end_time)
        => LET r == update_appointment_result(appointments, now, id, data, TRUE) IN
           r.kind = "ValidationError" /\ r.detail = "unavailable" /\ r.table = appointments

\* A create request was refused as unavailable although no appointment is
\* stored: the refusal comes from the failed data access alone.
C7_Witness ==
    /\ response.op = "create"
    /\ response.logged_error
    /\ response.kind = "ValidationError"
    /\ appointments = <<>>

C9_RejectedCreateChangesNothing ==
    \A data \in CreateData, db_error \in BOOLEAN :
        LET r == create_appointment_result(appointments, now, data, db_error) IN
        /\ r.detail \in {"past", "range", "duration", "unavailable"}
            => r.table = appointments
        /\ data.scheduled_start_time < now
            => (r.detail = "past" /\ r.table = appointments)
        /\ (data.scheduled_start_time >= data.scheduled_end_time
                \/ Mismatch(data) \/ StaffBusy(data))
            => r.table = appointments

\* A create request for a time in the past was rejected while appointments
\* are stored.
C9_Witness ==
    /\ response.op = "create"
    /\ response.detail = "past"
    /\ now > 0
    /\ Len(appointments) >= 1

\* C10: every stored appointment has start < end, and its length in
\* minutes is duration + preparation + cleanup of the service it names.
C10_StoredDurationInvariant ==
    \A i \in Rows :
        /\ appointments[i].scheduled_start_time < appointments[i].scheduled_end_time
        /\ appointments[i].scheduled_end_time - appointments[i].scheduled_start_time
            = Services[appointments[i].service_id].duration_minutes
                + Services[appointments[i].service_id].preparation_time
                + Services[appointments[i].service_id].cleanup_time

\* An appointment for the service with preparation and cleanup time is
\* stored, and an update that would break the duration rule was refused.
C10_Witness ==
    /\ response.op = "update"
    /\ response.detail = "ValidationError:duration"
    /\ \E i \in Rows :
        /\ appointments[i].service_id = 2
        /\ appointments[i].scheduled_end_time - appointments[i].scheduled_start_time = 60


\* The edges of the lifecycle, written out.
LegalEdges ==
    {<<"pending", "confirmed">>, <<"pending", "cancelled">>,
     <<"confirmed", "checked_in">>, <<"confirmed", "cancelled">>,
     <<"confirmed", "no_show">>,
     <<"checked_in", "in_progress">>, <<"checked_in", "no_show">>,
     <<"in_progress", "completed">>, <<"in_progress", "cancelled">>,
     <<"cancelled", "pending">>, <<"no_show", "pending">>}

\* C11: an appointment created by create_appointment is stored as pending;
\* every stored change of an appointment's status, by any operation, is an
\* edge of the legal table; a completed appointment never changes status.
C11_LifecycleConformance ==
    [][\A i \in 1..MaxAppts :
        /\ (i \in 1..Len(appointments) /\ i \in 1..Len(appointments')
              /\ appointments'[i].status # appointments[i].status)
            => (<<appointments[i].status, appointments'[i].status>> \in LegalEdges
                  /\ appointments[i].status # "completed")
        /\ (i \notin 1..Len(appointments) /\ i \in 1..Len(appointments'))
            => appointments'[i].status = "pending"
        /\ i \in 1..Len(appointments) => i \in 1..Len(appointments')]_vars

\* A status update asked for a move outside the table on a stored row, it
\* was refused, and a row created through the endpoint is stored as pending
\* next to a completed one.
C11_Witness ==
    /\ response.op = "update"
    /\ response.kind # "ok"
    /\ Len(appointments) = 2
    /\ appointments[1].status = "completed"
    /\ appointments[2].status = "pending"
    /\ Len(requested) = 1

\* The update payload that carries a status and nothing else.
StatusOnly(status) ==
    [scheduled_start_time |-> Unset,
     scheduled_end_time |-> Unset,
     staff_member_id |-> Unset,
     service_id |-> Unset,
     status |-> status]

\* The status each dedicated operation moves an appointment to.
OpTarget(op) ==
    CASE op = "confirm" -> "confirmed"
      [] op = "cancel" -> "cancelled"
      [] op = "check_in" -> "checked_in"
      [] op = "start_service" -> "in_progress"
      [] op = "complete" -> "completed"
      [] op = "mark_no_show" -> "no_show"

\* C12: for every stored appointment in status s and every target t outside
\* the legal table for s (t = s included), the request to move it to t, by
\* a status update or by the dedicated operation, fails with the invalid
\* transition error and leaves the stored appointment as it was.
C12_IllegalTransitionRejected ==
    \A i \in Rows, t \in AppointmentStatus :
        <<appointments[i].status, t>> \notin LegalEdges
        => /\ LET r == update_appointment_result(appointments, now, i,
                                                 StatusOnly(t), FALSE) IN
              r.kind = "ValidationError" /\ r.table = appointments
           /\ \A op \in TransitionOps :
                OpTarget(op) = t
                => LET r == transition_result(appointments, now, i, op, "") IN
                   r.kind = "ValidationError" /\ r.table = appointments
           /\ t = "no_show"
                => LET r == mark_no_show_result(appointments, now, i) IN
                   r.kind = "ValidationError" /\ r.table = appointments

\* C13: the check-in operation moves a confirmed appointment to checked_in
\* and sets actual_start_time to the time of the call in the same write; a
\* stored appointment in checked_in, in_progress or completed always has an
\* actual_start_time.
C13_CheckInSetsActualStart ==
    /\ [][\A id \in 1..MaxAppts :
            (/\ id \in Rows
             /\ appointments[id].status = "confirmed"
             /\ TransitionAppointment(id, "check_in", ""))
            => (/\ appointments'[id].status = "checked_in"
                /\ appointments'[id].actual_start_time = now)]_vars
    /\ [](\A i \in Rows :
            appointments[i].status \in {"checked_in", "in_progress", "completed"}
            => appointments[i].actual_start_time # Unset)

\* C14: the complete operation moves an in-progress appointment to
\* completed and sets actual_end_time and payment_status = paid in the same
\* write; a stored completed appointment always has an actual_end_time and
\* payment_status paid.
C14_CompleteSetsEndAndPaid ==
    /\ [][\A id \in 1..MaxAppts :
            (/\ id \in Rows
             /\ appointments[id].status = "in_progress"
             /\ TransitionAppointment(id, "complete", ""))
            => (/\ appointments'[id].status = "completed"
                /\ appointments'[id].actual_end_time = now
                /\ appointments'[id].payment_status = "paid")]_vars
    /\ [](\A i \in Rows :
            appointments[i].status = "completed"
            => (appointments[i].actual_end_time # Unset
                  /\ appointments[i].payment_status = "paid"))

\* C15: a confirmation notification is requested exactly once when an
\* appointment is created and exactly once when a pending appointment is
\* confirmed, a cancellation notification carrying the reason exactly once
\* when an appointment is cancelled, and no notification is requested by
\* any other operation.
C15_NotificationTriggers ==
    [][/\ Len(appointments') > Len(appointments)
            => (/\ Len(requested') = Len(requested) + 1
                /\ requested'[Len(requested')].kind = "confirmation")
       /\ \A id \in 1..MaxAppts :
            (/\ id \in Rows
             /\ appointments[id].status = "pending"
             /\ TransitionAppointment(id, "confirm", ""))
            => (/\ Len(requested') = Len(requested) + 1
                /\ requested'[Len(requested')].kind = "confirmation"
                /\ requested'[Len(requested')].appointment = id)
       /\ \A id \in 1..MaxAppts :
            (/\ id \in Rows
             /\ appointments[id].status \in {"pending", "confirmed", "in_progress"}
             /\ TransitionAppointment(id, "cancel", "Client request"))
            => (/\ Len(requested') = Len(requested) + 1
                /\ requested'[Len(requested')].kind = "cancellation"
                /\ requested'[Len(requested')].reason = "Client request")
       /\ \A id \in 1..MaxAppts :
            (\/ DeleteAppointment(id)
             \/ MarkNoShow(id)
             \/ \E op \in {"check_in", "start_service", "complete"} :
                    TransitionAppointment(id, op, ""))
            => requested' = requested]_vars

QueriedHours ==
    {k \in 1..Len(working_hours) :
        /\ working_hours[k].staff_profile = query.staff_member_id
        /\ working_hours[k].day_of_week = (query.date % 7) + 1
        /\ working_hours[k].is_available}

\* The length of the queried service: duration + preparation + cleanup.
QueriedDuration ==
    Services[query.service_id].duration_minutes
        + Services[query.service_id].preparation_time
        + Services[query.service_id].cleanup_time

\* Candidate start times (clock minutes) of the 30-minute grid that fit
\* into the hours w.
Candidates(w) ==
    {w.start_time + 30 * k : k \in 0..48} \cap
        {t \in 0..(24 * 60) : t + QueriedDuration <= w.end_time}

\* The slot starting at clock time t intersects the break of w.
InBreak(w, t) ==
    /\ w.break_start_time # Unset
    /\ t < w.break_end_time
    /\ w.break_start_time < t + QueriedDuration

\* The slot starting at clock time t of the queried date overlaps an
\* appointment of the queried staff member on that date with a status in S.
Booked(t, S) ==
    \E i \in Rows :
        /\ appointments[i].staff_member_id = query.staff_member_id
        /\ appointments[i].status \in S
        /\ appointments[i].scheduled_start_time \div (24 * 60) = query.date
        /\ query.date * 24 * 60 + t < appointments[i].scheduled_end_time
        /\ appointments[i].scheduled_start_time < query.date * 24 * 60 + t + QueriedDuration

ActiveStatuses == {"pending", "confirmed", "checked_in", "in_progress"}

\* The start times of the answer as clock minutes.
AnswerStarts == {response.slots[k][1] * 60 + response.slots[k][2] : k \in 1..Len(response.slots)}

\* C17: with available hours [ws, we) and service length d, the availability
\* answer lists, in strictly ascending order, exactly the starts ws + 30k
\* with ws + 30k + d <= we whose slot intersects neither the break nor an
\* active appointment of the staff member on that date.
C17_SlotGrid ==
    (response.op = "availability" /\ QueriedHours # {})
    => \A h \in QueriedHours :
        /\ \A k \in 1..(Len(response.slots) - 1) :
              response.slots[k][1] * 60 + response.slots[k][2]
                < response.slots[k + 1][1] * 60 + response.slots[k + 1][2]
        /\ AnswerStarts =
              {t \in Candidates(working_hours[h]) :
                  ~InBreak(working_hours[h], t) /\ ~Booked(t, ActiveStatuses)}

\* C18: every slot of the availability answer lies within the working hours
\* of the staff member for that weekday and does not intersect the break
\* window (half-open).
C18_SlotsRespectHoursAndBreak ==
    (response.op = "availability" /\ QueriedHours # {})
    => \A h \in QueriedHours, t \in AnswerStarts :
        /\ working_hours[h].start_time <= t
        /\ t + QueriedDuration <= working_hours[h].end_time
        /\ ~InBreak(working_hours[h], t)

\* C19: a candidate slot is in the availability answer exactly when it
\* overlaps no appointment of the staff member on that date in status
\* pending, confirmed, checked_in or in_progress; cancelled, completed and
\* no_show appointments remove no slot; touching an appointment is no overlap.
C19_SlotsAvoidActiveBookings ==
    (response.op = "availability" /\ QueriedHours # {})
    => \A h \in QueriedHours :
        \A t \in Candidates(working_hours[h]) :
            (t \in AnswerStarts) <=> ~Booked(t, ActiveStatuses)

\* Hours 09:00-17:00, a 30-minute service and an active appointment
\* 10:00-10:30 of the queried staff member: 09:30 is offered, 10:00 is not.
C19_Witness ==
    /\ response.op = "availability"
    /\ QueriedHours # {}
    /\ QueriedDuration = 30
    /\ \E i \in Rows :
        /\ appointments[i].staff_member_id = query.staff_member_id
        /\ appointments[i].status = "confirmed"
        /\ appointments[i].scheduled_start_time = query.date * 24 * 60 + 600
        /\ appointments[i].scheduled_end_time = query.date * 24 * 60 + 630
    /\ 570 \in AnswerStarts
    /\ 600 \notin AnswerStarts
    /\ 630 \in AnswerStarts

\* C20: when the staff member has no WorkingHours row for the weekday of
\* the requested date, or the row is not available, the availability
\* endpoint answers successfully with no slots and the staff slot
\* generator returns no slots.
C20_NoScheduleNoSlots ==
    (response.op \in {"availability", "staff_slots"} /\ QueriedHours = {})
    => (response.kind = "ok" /\ response.slots = <<>>)

\* The availability endpoint answered with an empty list for a weekday
\* whose WorkingHours row is stored but marked unavailable.
C20_Witness ==
    /\ response.op = "availability"
    /\ response.kind = "ok"
    /\ response.slots = <<>>
    /\ \E k \in 1..Len(working_hours) :
        /\ working_hours[k].day_of_week = (query.date % 7) + 1
        /\ ~working_hours[k].is_available
        /\ working_hours[k].start_time < working_hours[k].end_time

(***************************************************************************)
(* Non-positive durations and termination of the slot generators.          *)
(***************************************************************************)
\* C21: a slot-generation call with service_duration <= 0 fails with an
\* invalid-duration error and returns no slots; no zero-length or
\* negative-length slot is ever emitted.
C21_NonPositiveDurationRejected ==
    (walk.pc # "idle" /\ walk.service_duration <= 0) =>
        /\ walk.slots = <<>>
        /\ walk.pc \in {"returned", "raised"} => walk.raised = "InvalidDurationError"

\* C26: every call of either slot generator, for any integer duration,
\* leaves its loop after finitely many iterations.  Both loop conditions
\* read current_time as their only changing value, so an iteration that
\* stays in the loop has to move current_time.
C26_SlotWalkTerminates ==
    /\ [][(walk.pc = "loop" /\ WalkStep /\ walk'.pc = "loop")
            => walk'.current_time # walk.current_time]_vars
    /\ (walk.pc = "loop") ~> (walk.pc \in {"returned", "raised"})

(***************************************************************************)
(* Working hours.                                                          *)
(***************************************************************************)
\* The break of a row, in minutes, when both ends are set.
BreakMinutes(w) ==
    IF w.break_start_time # Unset /\ w.break_end_time # Unset
    THEN w.break_end_time - w.break_start_time ELSE 0

\* C22: duration_minutes of any WorkingHours object is 0 when the day is
\* not available, otherwise (end - start) less the break when both break
\* times are set, and never below 0.
C22_DurationMinutes ==
    response.op = "duration_minutes" =>
        /\ response.value >= 0
        /\ ~instance.obj.is_available => response.value = 0
        /\ instance.obj.is_available =>
            \/ /\ response.value = 0
               /\ instance.obj.end_time - instance.obj.start_time
                    - BreakMinutes(instance.obj) <= 0
            \/ response.value = instance.obj.end_time - instance.obj.start_time
                                    - BreakMinutes(instance.obj)

\* The stored Monday 09:00-12:00 with the break 10:00-11:00 reads 120.
C22_Witness ==
    /\ response.op = "duration_minutes"
    /\ instance.obj.is_available
    /\ instance.obj.start_time = 540 /\ instance.obj.end_time = 720
    /\ BreakMinutes(instance.obj) = 60
    /\ response.value = 120
    /\ \E i \in 1..Len(working_hours) : working_hours[i] = instance.obj

\* C23: every stored WorkingHours row with both break times set has
\* break_start < break_end within [start, end], and every available row has
\* start < end.
C23_StoredHoursInvariant ==
    \A i \in 1..Len(working_hours) :
        LET w == working_hours[i] IN
        /\ (w.break_start_time # Unset /\ w.break_end_time # Unset) =>
              /\ w.break_start_time < w.break_end_time
              /\ w.start_time <= w.break_start_time
              /\ w.break_end_time <= w.end_time
        /\ w.is_available => w.start_time < w.end_time

\* C24: a schedule replacement either stores exactly the submitted rows
\* for the staff member or leaves the stored schedule as it was.
C24_ReplacementIsWholesale ==
    [][\A entries \in SchedulePayloads :
          UpdateStaffSchedule(entries) =>
              \/ working_hours' = entries
              \/ working_hours' = working_hours]_vars

(***************************************************************************)
(* Soft delete and rejected cancels.                                       *)
(***************************************************************************)
\* C25: delete() stores is_deleted = true with a deleted_at time, restore()
\* stores is_deleted = false with no deleted_at, delete_appointment does
\* the former for an appointment in any status, and every stored row has
\* is_deleted = true exactly when deleted_at is set.
C25_SoftDeleteRestore ==
    /\ [][\A id \in 1..MaxAppts :
            /\ (id \in Rows /\ (DeleteCall(id) \/ DeleteAppointment(id)))
                  => (/\ appointments'[id].is_deleted
                      /\ appointments'[id].deleted_at # Unset)
            /\ (id \in Rows /\ RestoreCall(id))
                  => (/\ ~appointments'[id].is_deleted
                      /\ appointments'[id].deleted_at = Unset)]_vars
    /\ [](\A i \in Rows :
            appointments[i].is_deleted <=> appointments[i].deleted_at # Unset)

\* C27: a cancel requested for an appointment in checked_in, no_show,
\* cancelled or completed fails, and the stored row and the object of the
\* caller both keep their status and cancellation_reason.
C27_RejectedCancelChangesNothing ==
    [][\A id \in 1..MaxAppts : \A reason \in Reasons :
          (/\ id \in Rows
           /\ appointments[id].status
                \in {"checked_in", "no_show", "cancelled", "completed"}
           /\ CancelCall(id, reason))
          => (/\ response'.kind # "ok"
              /\ appointments' = appointments
              /\ instance'.obj.status = appointments[id].status
              /\ instance'.obj.cancellation_reason
                    = appointments[id].cancellation_reason)]_vars

Bookable(t) ==
    check_staff_availability(appointments, query.staff_member_id,
                             query.date * 24 * 60 + t,
                             query.date * 24 * 60 + t + QueriedDuration,
                             Unset, FALSE)

\* An appointment of the queried staff member that is completed or no_show,
\* or starts on another date, overlaps the slot starting at t.
UnseenOverlap(t) ==
    \E i \in Rows :
        /\ appointments[i].staff_member_id = query.staff_member_id
        /\ \/ appointments[i].status \in {"completed", "no_show"}
           \/ appointments[i].scheduled_start_time \div (24 * 60) # query.date
        /\ query.date * 24 * 60 + t < appointments[i].scheduled_end_time
        /\ appointments[i].scheduled_start_time < query.date * 24 * 60 + t + QueriedDuration

C30_DeletedAppointmentFreesSlot ==
    [][\A id \in 1..MaxAppts :
          (id \in Rows /\ DeleteAppointment(id))
          => /\ response'.kind = "ok"
             /\ appointments'[id].is_deleted
             /\ check_staff_availability(appointments',
                     appointments[id].staff_member_id,
                     appointments[id].scheduled_start_time,
                     appointments[id].scheduled_end_time, Unset, FALSE)
             /\ check_client_availability(appointments',
                     appointments[id].client_id,
                     appointments[id].scheduled_start_time,
                     appointments[id].scheduled_end_time, Unset, FALSE)
             /\ id \notin existing_appointments(appointments',
                     appointments[id].staff_member_id,
                     appointments[id].scheduled_start_time \div (24 * 60))]_vars

====
